---- MODULE Spec2Model ----
(***************************************************************************)
(* HashyStepTable (Assignment_2A/hashy_step_table.py): an open-addressing  *)
(* hash table with a primary hash, a step hash, lazy deletion through the  *)
(* DELETED sentinel and growth along the TABLE_SIZES schedule.             *)
(*                                                                         *)
(* A table object is the record                                            *)
(*   [array, count, size_index, exc]                                       *)
(* where array is a function 0..n-1 -> slot and exc is the exception the   *)
(* last statement raised ("none" when it returned normally). Every method  *)
(* is an operator from the object before the call to the object after it;  *)
(* an exception stops the method where the code raises, keeping the        *)
(* assignments made so far.                                                *)
(***************************************************************************)
EXTENDS Integers, Sequences, FiniteSets

(* ---- bounds of the model ---- *)
\* a failed _rehash still adds 1 to size_index: calls that would take it
\* beyond len(TABLE_SIZES) + MaxOverrun are cut off
MaxOverrun == 2
\* an insert into a DELETED slot does not add to count and a delete subtracts
\* from it: calls that would leave count more than MaxDrift below the number
\* of stored items are cut off
MaxDrift == 1
\* direct _rehash calls that would build an array of more than MaxCapacity
\* slots are cut off
MaxCapacity == 13

(* ---- inputs: keys are strings, written as sequences of code points ---- *)
\* "a", "b", "c", "d"
Keys == { <<97>>, <<98>>, <<99>>, <<100>> }
Vals == {0, 1}

(* ---- class attributes ---- *)
DEFAULT_TABLE_SIZES == <<5, 13, 29, 53, 97, 193, 389, 769, 1543, 3079, 6151,
                         12289, 24593, 49157, 98317, 196613, 393241, 786433,
                         1572869>>
HASH_BASE == 31
HASH_A == 31415
HASH2_BASE == 37

\* the sizes argument of the constructor; <<>> stands for sizes=None
SizesArgs == { <<>>, <<5>>, <<4>>, <<3, 4>>, <<4, 8>>, <<3, 4, 8>> }

(* ---- exceptions, by type and message ---- *)
FULL_PROBE == "FullError: Hash table is full"
FULL_RESIZE == "FullError: Cannot resize table further"
IsFullError(exc) == exc \in {FULL_PROBE, FULL_RESIZE}

(* ---- slots ---- *)
None == [tag |-> "None", key |-> <<>>, val |-> 0]
DELETED == [tag |-> "DELETED", key |-> <<>>, val |-> 0]
Item(k, v) == [tag |-> "Item", key |-> k, val |-> v]

\* ArrayR(length): a fixed-length array of None, indexed from 0
ArrayR(length) == [i \in 0..(length - 1) |-> None]

VARIABLES
  TABLE_SIZES,  \* self.TABLE_SIZES
  array,        \* self.array
  count,        \* self.count
  size_index,   \* self.size_index
  last,         \* the last public call: its name, arguments and outcome
  stack,        \* the frames of a call in progress, innermost last (SpecSteps)
  team,         \* a Team object: its statistics, and the results it has played
  season        \* a Season object: its teams and its generated schedule

vars == <<TABLE_SIZES, array, count, size_index, last, stack, team, season>>

\* what the calls taken as one step leave alone
NoFrames == stack = <<>>

\* no Team and no Season has been made: the table's caller has none
NoLeague == team = <<>> /\ season = <<>>

\* the object the methods work on
Self == [array |-> array, count |-> count, size_index |-> size_index, exc |-> "none"]

table_size(self) == Cardinality(DOMAIN self.array)

len(self) == self.count

(* ---- hash ---- *)
RECURSIVE HashLoop(_, _, _, _, _)
HashLoop(key, i, value, a, n) ==
  IF i > Len(key) THEN value
  ELSE HashLoop(key, i + 1, (key[i] + a * value) % n, (a * HASH_BASE) % (n - 1), n)

\* a % (table_size - 1) divides by zero when the table has one slot
HashRaises(self, key) == table_size(self) = 1 /\ Len(key) > 0

hash(self, key) == HashLoop(key, 1, 0, HASH_A, table_size(self))

RECURSIVE Hash2Loop(_, _, _, _)
Hash2Loop(key, i, value, n) ==
  IF i > Len(key) THEN value
  ELSE Hash2Loop(key, i + 1, (key[i] + value * HASH2_BASE) % n, n)

Max(x, y) == IF x >= y THEN x ELSE y

\* mutant of hash2: the step is not raised to 1 when the hash is 0
hash2_unclamped(self, key) == Hash2Loop(key, 1, 0, table_size(self))

hash2(self, key) == Max(1, Hash2Loop(key, 1, 0, table_size(self)))

(* ---- _hashy_probe ---- *)
\* first_deleted = -1 stands for None
RECURSIVE ProbeLoop(_, _, _, _, _, _, _)
\* mutant of ProbeLoop: an insert takes the first tombstone at once, without
\* looking further along the probe for the key
ProbeLoop_eager_reuse(self, key, is_insert, position, step_size, first_deleted, i) ==
  IF i >= table_size(self)
  THEN IF is_insert
       THEN [exc |-> FULL_PROBE, position |-> -1]
       ELSE [exc |-> "KeyError", position |-> -1]
  ELSE LET slot == self.array[position]
           next == (position + step_size) % table_size(self)
       IN IF slot = None
          THEN IF is_insert
               THEN [exc |-> "none", position |-> position]
               ELSE [exc |-> "KeyError", position |-> -1]
          ELSE IF slot = DELETED
               THEN IF is_insert
                    THEN [exc |-> "none", position |-> position]
                    ELSE ProbeLoop(self, key, is_insert, next, step_size,
                                   first_deleted, i + 1)
               ELSE IF slot.key = key
                    THEN [exc |-> "none", position |-> position]
                    ELSE ProbeLoop(self, key, is_insert, next, step_size,
                                   first_deleted, i + 1)

\* mutant of ProbeLoop: an insert ignores the tombstones it passed and
\* takes the empty slot that ends the probe
ProbeLoop_no_reuse(self, key, is_insert, position, step_size, first_deleted, i) ==
  IF i >= table_size(self)
  THEN IF is_insert /\ first_deleted # -1
       THEN [exc |-> "none", position |-> first_deleted]
       ELSE IF is_insert
            THEN [exc |-> FULL_PROBE, position |-> -1]
            ELSE [exc |-> "KeyError", position |-> -1]
  ELSE LET slot == self.array[position]
           next == (position + step_size) % table_size(self)
       IN IF slot = None
          THEN IF is_insert
               THEN [exc |-> "none", position |-> position]
               ELSE [exc |-> "KeyError", position |-> -1]
          ELSE IF slot = DELETED
               THEN ProbeLoop(self, key, is_insert, next, step_size,
                              IF first_deleted = -1 THEN position ELSE first_deleted,
                              i + 1)
               ELSE IF slot.key = key
                    THEN [exc |-> "none", position |-> position]
                    ELSE ProbeLoop(self, key, is_insert, next, step_size,
                                   first_deleted, i + 1)

ProbeLoop(self, key, is_insert, position, step_size, first_deleted, i) ==
  IF i >= table_size(self)
  THEN IF is_insert /\ first_deleted # -1
       THEN [exc |-> "none", position |-> first_deleted]
       ELSE IF is_insert
            THEN [exc |-> FULL_PROBE, position |-> -1]
            ELSE [exc |-> "KeyError", position |-> -1]
  ELSE LET slot == self.array[position]
           next == (position + step_size) % table_size(self)
       IN IF slot = None
          THEN IF is_insert
               THEN [exc |-> "none",
                     position |-> IF first_deleted # -1 THEN first_deleted ELSE position]
               ELSE [exc |-> "KeyError", position |-> -1]
          ELSE IF slot = DELETED
               THEN ProbeLoop(self, key, is_insert, next, step_size,
                              IF first_deleted = -1 THEN position ELSE first_deleted,
                              i + 1)
               ELSE IF slot.key = key
                    THEN [exc |-> "none", position |-> position]
                    ELSE ProbeLoop(self, key, is_insert, next, step_size,
                                   first_deleted, i + 1)

hashy_probe(self, key, is_insert) ==
  IF HashRaises(self, key)
  THEN [exc |-> "ZeroDivisionError", position |-> -1]
  ELSE ProbeLoop(self, key, is_insert, hash(self, key), hash2(self, key), -1, 0)

(* ---- __setitem__ and _rehash ---- *)
RECURSIVE setitem(_, _, _)
RECURSIVE rehash(_)
RECURSIVE RehashLoop(_, _, _)

\* for item in old_array: if item is not None: key, value = item; self[key] = value
RehashLoop(self, old_array, x) ==
  IF x >= Cardinality(DOMAIN old_array) THEN self
  ELSE LET item == old_array[x]
       IN IF item = None
          THEN RehashLoop(self, old_array, x + 1)
          ELSE IF item = DELETED
               THEN [self EXCEPT !.exc = "TypeError"]
               ELSE LET s == setitem(self, item.key, item.val)
                    IN IF s.exc # "none" THEN s ELSE RehashLoop(s, old_array, x + 1)

\* mutant of rehash: the exhaustion test is off by one and refuses the last entry
rehash_early(self) ==
  LET old_array == self.array
      s1 == [self EXCEPT !.size_index = @ + 1]
  IN IF s1.size_index >= Len(TABLE_SIZES) - 1
     THEN [s1 EXCEPT !.exc = FULL_RESIZE]
     ELSE RehashLoop([s1 EXCEPT !.array = ArrayR(TABLE_SIZES[s1.size_index + 1]),
                                !.count = 0],
                     old_array, 0)

\* mutant of rehash: at the end of the schedule size_index starts over at 0
rehash_wraps(self) ==
  LET old_array == self.array
      s1 == [self EXCEPT !.size_index = @ + 1]
  IN IF s1.size_index >= Len(TABLE_SIZES)
     THEN [s1 EXCEPT !.exc = FULL_RESIZE, !.size_index = 0]
     ELSE RehashLoop([s1 EXCEPT !.array = ArrayR(TABLE_SIZES[s1.size_index + 1]),
                                !.count = 0],
                     old_array, 0)

rehash(self) ==
  LET old_array == self.array
      s1 == [self EXCEPT !.size_index = @ + 1]
  IN IF s1.size_index >= Len(TABLE_SIZES)
     THEN [s1 EXCEPT !.exc = FULL_RESIZE]
     ELSE RehashLoop([s1 EXCEPT !.array = ArrayR(TABLE_SIZES[s1.size_index + 1]),
                                !.count = 0],
                     old_array, 0)

\* mutant of store: count is raised on every write, an overwrite included
store_counts_always(self, position, key, data) ==
  [self EXCEPT !.count = @ + 1,
               !.array[position] = Item(key, data)]

\* if self.array[position] is None: self.count += 1
\* self.array[position] = (key, data)
store(self, position, key, data) ==
  [self EXCEPT !.count = IF self.array[position] = None THEN @ + 1 ELSE @,
               !.array[position] = Item(key, data)]

\* mutant of over_load: the threshold is the whole capacity instead of 2/3 of it
over_load_whole(self) == len(self) > table_size(self)

\* len(self) > self.table_size * 2 / 3
over_load(self) == 3 * len(self) > table_size(self) * 2

setitem(self, key, data) ==
  LET p == hashy_probe(self, key, TRUE)
  IN IF p.exc # "none"
     THEN [self EXCEPT !.exc = p.exc]
     ELSE LET s1 == store(self, p.position, key, data)
          IN IF over_load(s1) THEN rehash(s1) ELSE s1

(* ---- __delitem__ ---- *)
\* mutant of delitem: count is decremented before the probe, found or not
delitem_count_first(self, key) ==
  LET p == hashy_probe(self, key, FALSE)
  IN IF p.exc # "none"
     THEN [self EXCEPT !.exc = p.exc, !.count = @ - 1]
     ELSE [self EXCEPT !.array[p.position] = DELETED, !.count = @ - 1]

\* mutant of delitem: the slot is emptied instead of being marked DELETED
delitem_empty(self, key) ==
  LET p == hashy_probe(self, key, FALSE)
  IN IF p.exc # "none"
     THEN [self EXCEPT !.exc = p.exc]
     ELSE [self EXCEPT !.array[p.position] = None, !.count = @ - 1]

delitem(self, key) ==
  LET p == hashy_probe(self, key, FALSE)
  IN IF p.exc # "none"
     THEN [self EXCEPT !.exc = p.exc]
     ELSE [self EXCEPT !.array[p.position] = DELETED, !.count = @ - 1]

(* ---- __getitem__, __contains__ ---- *)
\* the result of a call that returns a value: the exception, or the value in ret
getitem(self, key) ==
  LET p == hashy_probe(self, key, FALSE)
  IN IF p.exc # "none"
     THEN [exc |-> p.exc, ret |-> <<>>]
     ELSE [exc |-> "none", ret |-> <<self.array[p.position].val>>]

contains(self, key) ==
  LET g == getitem(self, key)
  IN IF g.exc = "KeyError" THEN [exc |-> "none", ret |-> <<FALSE>>]
     ELSE IF g.exc # "none" THEN g
     ELSE [exc |-> "none", ret |-> <<TRUE>>]

(* ---- keys, values ---- *)
\* self.array[x][0] on the DELETED sentinel (a bare object()) raises TypeError
RECURSIVE KeysLoop(_, _, _)
KeysLoop(self, x, res) ==
  IF x >= table_size(self) THEN [exc |-> "none", ret |-> res]
  ELSE IF self.array[x] = None THEN KeysLoop(self, x + 1, res)
  ELSE IF self.array[x] = DELETED THEN [exc |-> "TypeError", ret |-> <<>>]
  ELSE KeysLoop(self, x + 1, Append(res, self.array[x].key))

keys(self) == KeysLoop(self, 0, <<>>)

RECURSIVE ValuesLoop(_, _, _)
ValuesLoop(self, x, res) ==
  IF x >= table_size(self) THEN [exc |-> "none", ret |-> res]
  ELSE IF self.array[x] = None THEN ValuesLoop(self, x + 1, res)
  ELSE IF self.array[x] = DELETED THEN [exc |-> "TypeError", ret |-> <<>>]
  ELSE ValuesLoop(self, x + 1, Append(res, self.array[x].val))

values(self) == ValuesLoop(self, 0, <<>>)

(* ---- the state machine: one action per public call ---- *)
Call(op, key, val, exc, ret) ==
  [op |-> op, key |-> key, val |-> val, exc |-> exc, ret |-> ret]

\* slots holding an item, and how far count has fallen below their number
Occupied(arr) == { i \in DOMAIN arr : arr[i].tag = "Item" }
Drift(self) == Cardinality(Occupied(self.array)) - self.count

WithinBounds(self) ==
  /\ self.size_index <= Len(TABLE_SIZES) + MaxOverrun
  /\ Drift(self) <= MaxDrift
  /\ table_size(self) <= MaxCapacity

\* __init__(sizes)
Init ==
  /\ \E sizes \in SizesArgs :
       TABLE_SIZES = IF sizes = <<>> THEN DEFAULT_TABLE_SIZES ELSE sizes
  /\ size_index = 0
  /\ array = ArrayR(TABLE_SIZES[1])
  /\ count = 0
  /\ last = Call("init", <<>>, 0, "none", <<>>)
  /\ NoFrames
  /\ NoLeague

Store(self) ==
  /\ array' = self.array
  /\ count' = self.count
  /\ size_index' = self.size_index
  /\ UNCHANGED <<TABLE_SIZES, stack, team, season>>

Set(key, data) ==
  LET s == setitem(Self, key, data)
  IN /\ WithinBounds(s)
     /\ Store(s)
     /\ last' = Call("set", key, data, s.exc, <<>>)

Delete(key) ==
  LET s == delitem(Self, key)
  IN /\ Store(s)
     /\ last' = Call("delete", key, 0, s.exc, <<>>)

Get(key) ==
  LET r == getitem(Self, key)
  IN /\ last' = Call("get", key, 0, r.exc, r.ret)
     /\ UNCHANGED <<TABLE_SIZES, array, count, size_index, stack, team, season>>

Contains(key) ==
  LET r == contains(Self, key)
  IN /\ last' = Call("contains", key, 0, r.exc, r.ret)
     /\ UNCHANGED <<TABLE_SIZES, array, count, size_index, stack, team, season>>

KeysCall ==
  LET r == keys(Self)
  IN /\ last' = Call("keys", <<>>, 0, r.exc, r.ret)
     /\ UNCHANGED <<TABLE_SIZES, array, count, size_index, stack, team, season>>

ValuesCall ==
  LET r == values(Self)
  IN /\ last' = Call("values", <<>>, 0, r.exc, r.ret)
     /\ UNCHANGED <<TABLE_SIZES, array, count, size_index, stack, team, season>>

LenCall ==
  /\ last' = Call("len", <<>>, 0, "none", <<len(Self)>>)
  /\ UNCHANGED <<TABLE_SIZES, array, count, size_index, stack, team, season>>

Next ==
  \/ \E key \in Keys, data \in Vals : Set(key, data)
  \/ \E key \in Keys : Delete(key)
  \/ \E key \in Keys : Get(key)
  \/ \E key \in Keys : Contains(key)
  \/ KeysCall
  \/ ValuesCall
  \/ LenCall

Spec == Init /\ [][Next]_vars

\* the same caller, who also calls _rehash directly
RehashCall ==
  LET s == rehash(Self)
  IN /\ WithinBounds(s)
     /\ Store(s)
     /\ last' = Call("rehash", <<>>, 0, s.exc, <<>>)

NextRehash ==
  \/ Next
  \/ RehashCall

SpecRehash == Init /\ [][NextRehash]_vars

\* a caller of HashyStepTable([5]) who sets and gets with the values 0..3
ScenarioVals == 0..3

InitFive ==
  /\ TABLE_SIZES = <<5>>
  /\ size_index = 0
  /\ array = ArrayR(TABLE_SIZES[1])
  /\ count = 0
  /\ last = Call("init", <<>>, 0, "none", <<>>)
  /\ NoFrames
  /\ NoLeague

NextFive ==
  \/ \E key \in Keys, data \in ScenarioVals : Set(key, data)
  \/ \E key \in Keys : Get(key)

SpecFive == InitFive /\ [][NextFive]_vars

\* a caller who, on a fresh table of one capacity, sets one key, deletes it,
\* sets another key and reads it back; the keys are the lower-case letters
\* and a few longer strings
MaxProbeCap == 13
ProbeCaps == 1..MaxProbeCap
ProbeKeys ==
  { <<c>> : c \in 97..122 } \cup { <<97, 98>>, <<98, 97>>, <<120, 121, 122>> }

InitReuse ==
  /\ TABLE_SIZES \in { <<n>> : n \in ProbeCaps } \cup { DEFAULT_TABLE_SIZES }
  /\ size_index = 0
  /\ array = ArrayR(TABLE_SIZES[1])
  /\ count = 0
  /\ last = Call("init", <<>>, 0, "none", <<>>)
  /\ NoFrames
  /\ NoLeague

ReuseSetX == last.op = "init" /\ \E x \in ProbeKeys : Set(x, 1)

ReuseDeleteX == last.op = "set" /\ last.val = 1 /\ Delete(last.key)

ReuseSetY == last.op = "delete" /\ \E y \in ProbeKeys \ {last.key} : Set(y, 2)

ReuseGetY == last.op = "set" /\ last.val = 2 /\ Get(last.key)

NextReuse ==
  \/ ReuseSetX
  \/ ReuseDeleteX
  \/ ReuseSetY
  \/ ReuseGetY

SpecReuse == InitReuse /\ [][NextReuse]_vars

(* ---- the calls statement by statement ---- *)
\* The same methods with one step per pass of a loop, for the claims about
\* what happens inside a call. stack holds the frames of the call in
\* progress: the _hashy_probe loop of a public call or of a set made by
\* _rehash, and the reinsertion loop of a _rehash. A set whose probe is over
\* has nothing left to do after its _rehash, so the _rehash frame takes the
\* place of its frame. __contains__ is __getitem__ inside try/except and
\* keys, values and __len__ have no call or loop over a probe: the calls
\* taken here are set, get and delete.
StepSizes == { <<4>>, <<3, 4>>, <<3, 4, 8>> }
StepVals == {0}

\* a frame: op, key, val are the call it belongs to; position, first_deleted
\* and i are the locals of the probe loop; old_array and x those of the
\* reinsertion loop
ProbeFrame(op, key, val, position, first_deleted, i) ==
  [pc |-> "probe", op |-> op, key |-> key, val |-> val, position |-> position,
   first_deleted |-> first_deleted, i |-> i, old_array |-> <<>>, x |-> 0]
RehashFrame(op, key, val, old_array, x) ==
  [pc |-> "rehash", op |-> op, key |-> key, val |-> val, position |-> 0,
   first_deleted |-> -1, i |-> 0, old_array |-> old_array, x |-> x]

Top == stack[Len(stack)]
Callers == SubSeq(stack, 1, Len(stack) - 1)

\* mutant of probe_iteration: the passes of the loop are not counted
probe_iteration_uncounted(self, f) ==
  LET slot == self.array[f.position]
      next == (f.position + hash2(self, f.key)) % table_size(self)
      is_insert == f.op = "set"
      Done(exc, position) ==
        [done |-> TRUE, exc |-> exc, position |-> position, frame |-> f]
  IN IF slot = None
     THEN IF is_insert
          THEN Done("none", IF f.first_deleted # -1 THEN f.first_deleted
                                                   ELSE f.position)
          ELSE Done("KeyError", -1)
     ELSE IF slot = DELETED
          THEN [done |-> FALSE, exc |-> "none", position |-> -1,
                frame |-> [f EXCEPT !.position = next,
                                    !.first_deleted =
                                      IF @ = -1 THEN f.position ELSE @]]
          ELSE IF slot.key = f.key
               THEN Done("none", f.position)
               ELSE [done |-> FALSE, exc |-> "none", position |-> -1,
                     frame |-> [f EXCEPT !.position = next]]

\* one pass of "for _ in range(self.table_size)" in _hashy_probe, or what
\* follows the loop when the range is used up
probe_iteration(self, f) ==
  LET slot == self.array[f.position]
      next == (f.position + hash2(self, f.key)) % table_size(self)
      is_insert == f.op = "set"
      Done(exc, position) ==
        [done |-> TRUE, exc |-> exc, position |-> position, frame |-> f]
  IN IF f.i >= table_size(self)
     THEN IF is_insert /\ f.first_deleted # -1
          THEN Done("none", f.first_deleted)
          ELSE IF is_insert THEN Done(FULL_PROBE, -1) ELSE Done("KeyError", -1)
     ELSE IF slot = None
          THEN IF is_insert
               THEN Done("none", IF f.first_deleted # -1 THEN f.first_deleted
                                                        ELSE f.position)
               ELSE Done("KeyError", -1)
          ELSE IF slot = DELETED
               THEN [done |-> FALSE, exc |-> "none", position |-> -1,
                     frame |-> [f EXCEPT !.position = next, !.i = @ + 1,
                                         !.first_deleted =
                                           IF @ = -1 THEN f.position ELSE @]]
               ELSE IF slot.key = f.key
                    THEN Done("none", f.position)
                    ELSE [done |-> FALSE, exc |-> "none", position |-> -1,
                          frame |-> [f EXCEPT !.position = next, !.i = @ + 1]]

InitSteps ==
  /\ TABLE_SIZES \in StepSizes
  /\ size_index = 0
  /\ array = ArrayR(TABLE_SIZES[1])
  /\ count = 0
  /\ last = Call("init", <<>>, 0, "none", <<>>)
  /\ NoFrames
  /\ NoLeague

\* the public call the frames belong to is the call of the outermost frame
PublicCall(exc, ret) == Call(stack[1].op, stack[1].key, stack[1].val, exc, ret)

\* an exception leaves through every frame: no method catches it
Raise(exc) ==
  /\ stack' = <<>>
  /\ last' = PublicCall(exc, <<>>)

\* the innermost call returns: to the loop of the _rehash that made it, or
\* to the caller of the public call
Return(ret) ==
  /\ stack' = Callers
  /\ last' = IF Callers = <<>> THEN PublicCall("none", ret) ELSE last

\* a public call starts: hash(key) is computed and the probe loop is entered
Begin(op, key, val) ==
  /\ stack = <<>>
  /\ op = "set" => WithinBounds(setitem(Self, key, val))
  /\ ~HashRaises(Self, key)
  /\ stack' = <<ProbeFrame(op, key, val, hash(Self, key), -1, 0)>>
  /\ UNCHANGED <<TABLE_SIZES, array, count, size_index, last, team, season>>

\* _rehash from its first line to the start of its loop, called by the set
\* of frame f on the table s1 it has just written
EnterRehash(f, s1) ==
  /\ size_index' = s1.size_index + 1
  /\ IF s1.size_index + 1 >= Len(TABLE_SIZES)
     THEN /\ array' = s1.array
          /\ count' = s1.count
          /\ Raise(FULL_RESIZE)
     ELSE /\ array' = ArrayR(TABLE_SIZES[s1.size_index + 2])
          /\ count' = 0
          /\ stack' = Callers \o <<RehashFrame(f.op, f.key, f.val, s1.array, 0)>>
          /\ UNCHANGED last

\* what the method does with the position its probe returned
Resolved(f, position) ==
  CASE f.op = "get" ->
         /\ Return(<<array[position].val>>)
         /\ UNCHANGED <<array, count, size_index>>
    [] f.op = "delete" ->
         /\ array' = [array EXCEPT ![position] = DELETED]
         /\ count' = count - 1
         /\ Return(<<>>)
         /\ UNCHANGED size_index
    [] f.op = "set" ->
         LET s1 == store(Self, position, f.key, f.val)
         IN IF over_load(s1)
            THEN EnterRehash(f, s1)
            ELSE /\ array' = s1.array
                 /\ count' = s1.count
                 /\ Return(<<>>)
                 /\ UNCHANGED size_index

\* one pass of the probe loop of the innermost call
ProbeStep ==
  /\ stack # <<>> /\ Top.pc = "probe"
  /\ LET f == Top
         r == probe_iteration(Self, f)
     IN IF ~r.done
        THEN /\ stack' = Callers \o <<r.frame>>
             /\ UNCHANGED <<array, count, size_index, last>>
        ELSE IF r.exc = "none"
             THEN Resolved(f, r.position)
             ELSE /\ Raise(r.exc)
                  /\ UNCHANGED <<array, count, size_index>>
  /\ UNCHANGED <<TABLE_SIZES, team, season>>

\* one pass of "for item in old_array" in _rehash, or its return
RehashStep ==
  /\ stack # <<>> /\ Top.pc = "rehash"
  /\ LET f == Top
     IN IF f.x >= Cardinality(DOMAIN f.old_array)
        THEN /\ Return(<<>>)
             /\ UNCHANGED <<array, count, size_index>>
        ELSE LET item == f.old_array[f.x]
                 after == Callers \o <<[f EXCEPT !.x = @ + 1]>>
             IN IF item = None
                THEN /\ stack' = after
                     /\ UNCHANGED <<array, count, size_index, last>>
                ELSE IF item = DELETED
                     THEN /\ Raise("TypeError")
                          /\ UNCHANGED <<array, count, size_index>>
                     ELSE /\ stack' = after \o
                               <<ProbeFrame("set", item.key, item.val,
                                            hash(Self, item.key), -1, 0)>>
                          /\ UNCHANGED <<array, count, size_index, last>>
  /\ UNCHANGED <<TABLE_SIZES, team, season>>

Running == ProbeStep \/ RehashStep

NextSteps ==
  \/ \E key \in Keys, val \in StepVals : Begin("set", key, val)
  \/ \E op \in {"get", "delete"}, key \in Keys : Begin(op, key, 0)
  \/ ProbeStep
  \/ RehashStep

\* a call that has started is not abandoned: the interpreter runs it on
SpecSteps == InitSteps /\ [][NextSteps]_vars /\ WF_vars(Running)

(* ---- Team (team.py) ---- *)

\* the results one Team plays before the caller stops
MaxGames == 6

\* constants.GameResult: what each result adds to POINTS
GameResult == [WIN |-> 3, DRAW |-> 1, LOSS |-> 0]

\* constants.TeamStats.__members__, by name
TeamStats ==
  { "GAMES_PLAYED", "POINTS", "WINS", "DRAWS", "LOSSES", "GOALS_FOR",
    "GOALS_AGAINST", "GOALS_DIFFERENCE", "LAST_FIVE_RESULTS" }

\* the statistics a caller updates, and the values it writes
UpdatedStats == { "WINS", "DRAWS", "LOSSES", "GOALS_FOR", "GOALS_AGAINST" }
TeamVals == {0, 1}

\* LinkedQueue(): items are appended at the rear and served from the front
LinkedQueue == <<>>
LinkedQueue_append(queue, item) == Append(queue, item)
LinkedQueue_serve(queue) == [item |-> Head(queue), queue |-> Tail(queue)]

\* LinkedList(): items are appended at the end
LinkedList == <<>>
LinkedList_append(list, item) == Append(list, item)

\* Team.__init__: self.statistics, a LinkedQueue under LAST_FIVE_RESULTS and
\* 0 under every other statistic
Team_statistics ==
  [item \in TeamStats |-> IF item = "LAST_FIVE_RESULTS" THEN LinkedQueue ELSE 0]

\* __setitem__ with the queue served one entry late
Team_setitem_serves_late(statistics, statistic, value) ==
  LET s1 == [statistics EXCEPT ![statistic] = value]
      played == [s1 EXCEPT !["GAMES_PLAYED"] = @ + 1]
      result == IF statistic = "WINS" THEN "WIN"
                ELSE IF statistic = "DRAWS" THEN "DRAW" ELSE "LOSS"
      pointed == IF statistic = "LOSSES" THEN played
                 ELSE [played EXCEPT !["POINTS"] = @ + GameResult[result]]
      appended == [pointed EXCEPT
                     !["LAST_FIVE_RESULTS"] = LinkedQueue_append(@, result)]
      s2 == IF statistic \in {"WINS", "LOSSES", "DRAWS"}
            THEN IF Len(appended["LAST_FIVE_RESULTS"]) > 6
                 THEN [appended EXCEPT
                         !["LAST_FIVE_RESULTS"] = LinkedQueue_serve(@).queue]
                 ELSE appended
            ELSE s1
  IN IF statistic \in {"GOALS_FOR", "GOALS_AGAINST"}
     THEN [s2 EXCEPT
             !["GOALS_DIFFERENCE"] = s2["GOALS_FOR"] - s2["GOALS_AGAINST"]]
     ELSE s2

\* Team.__setitem__(statistic, value), on self.statistics
Team_setitem(statistics, statistic, value) ==
  LET s1 == [statistics EXCEPT ![statistic] = value]
      played == [s1 EXCEPT !["GAMES_PLAYED"] = @ + 1]
      result == IF statistic = "WINS" THEN "WIN"
                ELSE IF statistic = "DRAWS" THEN "DRAW" ELSE "LOSS"
      pointed == IF statistic = "LOSSES" THEN played
                 ELSE [played EXCEPT !["POINTS"] = @ + GameResult[result]]
      appended == [pointed EXCEPT
                     !["LAST_FIVE_RESULTS"] = LinkedQueue_append(@, result)]
      s2 == IF statistic \in {"WINS", "LOSSES", "DRAWS"}
            THEN IF Len(appended["LAST_FIVE_RESULTS"]) > 5
                 THEN [appended EXCEPT
                         !["LAST_FIVE_RESULTS"] = LinkedQueue_serve(@).queue]
                 ELSE appended
            ELSE s1
  IN IF statistic \in {"GOALS_FOR", "GOALS_AGAINST"}
     THEN [s2 EXCEPT
             !["GOALS_DIFFERENCE"] = s2["GOALS_FOR"] - s2["GOALS_AGAINST"]]
     ELSE s2

\* the loop of get_last_five_results: each pass serves one item and appends
\* it to the list returned and to the rear of the queue it came from
RECURSIVE RotateLoop(_, _, _)
RotateLoop(operations_list, return_list, passes) ==
  IF passes = 0
  THEN [queue |-> operations_list, ret |-> return_list]
  ELSE LET served == LinkedQueue_serve(operations_list)
       IN RotateLoop(LinkedQueue_append(served.queue, served.item),
                     LinkedList_append(return_list, served.item),
                     passes - 1)

\* Team.get_last_five_results(), on self.statistics
get_last_five_results(statistics) ==
  IF Len(statistics["LAST_FIVE_RESULTS"]) = 0
  THEN [statistics |-> statistics, ret |-> <<>>]
  ELSE LET r == RotateLoop(statistics["LAST_FIVE_RESULTS"], LinkedList,
                           Len(statistics["LAST_FIVE_RESULTS"]))
       IN [statistics |-> [statistics EXCEPT !["LAST_FIVE_RESULTS"] = r.queue],
           ret |-> <<r.ret>>]

\* no table has been made: the Team's and the Season's caller has none
NoTable ==
  /\ TABLE_SIZES = <<>>
  /\ array = <<>>
  /\ count = 0
  /\ size_index = 0
  /\ NoFrames

\* Team(name, players); team.played is the results played so far, oldest
\* first, kept beside the object to state what the queue should hold
InitTeam ==
  /\ team = [statistics |-> Team_statistics, played |-> <<>>]
  /\ season = <<>>
  /\ last = Call("init", <<>>, 0, "none", <<>>)
  /\ NoTable

\* team[statistic] = value
TeamSet(statistic, value) ==
  LET isResult == statistic \in {"WINS", "DRAWS", "LOSSES"}
      result == IF statistic = "WINS" THEN "WIN"
                ELSE IF statistic = "DRAWS" THEN "DRAW" ELSE "LOSS"
  IN /\ isResult => Len(team.played) < MaxGames
     /\ team' = [statistics |-> Team_setitem(team.statistics, statistic, value),
                 played |-> IF isResult THEN Append(team.played, result)
                            ELSE team.played]
     /\ last' = Call("Team.__setitem__", statistic, value, "none", <<>>)
     /\ UNCHANGED <<TABLE_SIZES, array, count, size_index, stack, season>>

\* team.get_last_five_results()
TeamLastFive ==
  LET r == get_last_five_results(team.statistics)
  IN /\ team' = [team EXCEPT !.statistics = r.statistics]
     /\ last' = Call("get_last_five_results", <<>>, 0, "none", r.ret)
     /\ UNCHANGED <<TABLE_SIZES, array, count, size_index, stack, season>>

NextTeam ==
  \/ \E statistic \in UpdatedStats, value \in TeamVals : TeamSet(statistic, value)
  \/ TeamLastFive

SpecTeam == InitTeam /\ [][NextTeam]_vars

(* ---- Season._generate_schedule (season.py) ---- *)

\* the most teams a Season is made with, and the names they are drawn from
MaxTeams == 4
TeamNames == {"A", "B", "C", "D", "E"}

\* the class attribute Team.team_number: no line of the sources assigns it
Team_team_number == 0

\* Team(team_name, players), as far as the schedule reads it: __init__ gives
\* the number Team.team_number + 1
Team(team_name) == [name |-> team_name, team_number |-> Team_team_number + 1]

\* Team.get_number()
get_number(self) == self.team_number

\* the dataclass Game: two games are equal when their fields are
Game(home_team, away_team) == [home_team |-> home_team, away_team |-> away_team]

\* BSet(): a set of positive integers
BSet == {}
BSet_add(set, item) == set \cup {item}

\* ArrayR.from_list(list): an array of the list's items, indexed from 0
ArrayR_from_list(list) == [i \in 0..(Len(list) - 1) |-> list[i + 1]]

\* len(array) of an ArrayR
ArrayR_len(a) == Cardinality(DOMAIN a)

\* list.remove(item): the list without its first item equal to item
list_remove(list, item) ==
  LET first == CHOOSE k \in 1..Len(list) :
                 /\ list[k] = item
                 /\ \A m \in 1..(k - 1) : list[m] # item
  IN SubSeq(list, 1, first - 1) \o SubSeq(list, first + 1, Len(list))

\* the two for loops that list every game: teams[i] at home to teams[j], for
\* every i < j
RECURSIVE PairLoop(_, _, _)
PairLoop(teams, i, j) ==
  IF i >= ArrayR_len(teams) THEN <<>>
  ELSE IF j >= ArrayR_len(teams) THEN PairLoop(teams, i + 1, i + 2)
  ELSE <<Game(teams[i], teams[j])>> \o PairLoop(teams, i, j + 1)

\* the for loop over a copy of games that fills one week, from its k-th pass
RECURSIVE WeekLoop(_, _, _, _, _, _)

\* the week's loop taking every game, whatever teams the week has used
WeekLoop_ignores_used(copy, k, games, current_week, flipped_week, used_teams) ==
  IF k > Len(copy)
  THEN [games |-> games, current_week |-> current_week,
        flipped_week |-> flipped_week]
  ELSE LET game == copy[k]
       IN WeekLoop(copy, k + 1, list_remove(games, game),
                   Append(current_week, game),
                   Append(flipped_week, Game(game.away_team, game.home_team)),
                   BSet_add(BSet_add(used_teams, get_number(game.home_team)),
                            get_number(game.away_team)))

WeekLoop(copy, k, games, current_week, flipped_week, used_teams) ==
  IF k > Len(copy)
  THEN [games |-> games, current_week |-> current_week,
        flipped_week |-> flipped_week]
  ELSE LET game == copy[k]
       IN IF /\ get_number(game.home_team) \notin used_teams
             /\ get_number(game.away_team) \notin used_teams
          THEN WeekLoop(copy, k + 1, list_remove(games, game),
                        Append(current_week, game),
                        Append(flipped_week,
                               Game(game.away_team, game.home_team)),
                        BSet_add(BSet_add(used_teams,
                                          get_number(game.home_team)),
                                 get_number(game.away_team)))
          ELSE WeekLoop(copy, k + 1, games, current_week, flipped_week,
                        used_teams)

\* while games: one pass per week
RECURSIVE WhileGames(_, _, _)
WhileGames(games, weekly_games, flipped_weeks) ==
  IF games = <<>>
  THEN ArrayR_from_list(weekly_games \o flipped_weeks)
  ELSE LET week == WeekLoop(games, 1, games, <<>>, <<>>, BSet)
       IN WhileGames(week.games,
                     Append(weekly_games, ArrayR_from_list(week.current_week)),
                     Append(flipped_weeks, ArrayR_from_list(week.flipped_week)))

\* Season._generate_schedule()
generate_schedule(self) == WhileGames(PairLoop(self.teams, 0, 1), <<>>, <<>>)

\* the lists of two or more different teams a Season is made with
TeamLists ==
  { list \in UNION { [1..n -> TeamNames] : n \in 2..MaxTeams } :
      \A i, j \in DOMAIN list : list[i] = list[j] => i = j }

\* Season(teams) as far as self.teams = teams
InitSeason ==
  /\ \E list \in TeamLists :
       season = [teams |-> ArrayR_from_list([i \in DOMAIN list |-> Team(list[i])]),
                 generated_schedule |-> <<>>]
  /\ team = <<>>
  /\ last = Call("init", <<>>, 0, "none", <<>>)
  /\ NoTable

\* self.generated_schedule = self._generate_schedule()
GenerateSchedule ==
  /\ last.op = "init"
  /\ season' = [season EXCEPT !.generated_schedule = generate_schedule(season)]
  /\ last' = Call("_generate_schedule", <<>>, 0, "none", <<>>)
  /\ UNCHANGED <<TABLE_SIZES, array, count, size_index, stack, team>>

NextSeason == GenerateSchedule

SpecSeason == InitSeason /\ [][NextSeason]_vars

(* ---- Team numbering (team.py) ---- *)

\* a caller who makes Team objects one after another, keeping them in the
\* order made; season.teams holds them
InitLeague ==
  /\ season = [teams |-> ArrayR_from_list(<<>>), generated_schedule |-> <<>>]
  /\ team = <<>>
  /\ last = Call("init", <<>>, 0, "none", <<>>)
  /\ NoTable

\* Team(team_name, players): __init__ reads Team.team_number and leaves it
\* as it was
MakeTeam(team_name) ==
  /\ ArrayR_len(season.teams) < MaxTeams
  /\ \A k \in DOMAIN season.teams : season.teams[k].name # team_name
  /\ season' = [season EXCEPT
                  !.teams = [k \in 0..ArrayR_len(season.teams) |->
                               IF k < ArrayR_len(season.teams)
                               THEN season.teams[k]
                               ELSE Team(team_name)]]
  /\ last' = Call("Team.__init__", team_name, 0, "none", <<>>)
  /\ UNCHANGED <<TABLE_SIZES, array, count, size_index, stack, team>>

NextLeague == \E team_name \in TeamNames : MakeTeam(team_name)

SpecLeague == InitLeague /\ [][NextLeague]_vars

(* ---- claims ---- *)
NumOccupied == Cardinality(Occupied(array))

\* what get(key) gives in the current state: [exc, ret]
Lookup(key) == getitem(Self, key)
\* and in the state after the step
LookupAfter(key) == getitem(Self', key)
Found(v) == [exc |-> "none", ret |-> <<v>>]
NotFound == [exc |-> "KeyError", ret |-> <<>>]

\* the call just made (in the next state's last) and its kind
SetStep == last'.op = "set"
DeleteStep == last'.op = "delete"

\* the write of set(key, data) takes count above 2/3 of the capacity
PushesAboveTwoThirds(key, data) ==
  LET p == hashy_probe(Self, key, TRUE)
  IN /\ p.exc = "none"
     /\ 3 * store(Self, p.position, key, data).count > 2 * table_size(Self)

\* C1: between public calls, length() (count) equals the number of Occupied
\* slots, also after a key was inserted into a slot that held a tombstone.
C1_CountIsLiveKeys == len(Self) = NumOccupied

\* C2: a set(k, v) that does not fail with table-full is followed by a get(k)
\* that returns v, whether k was absent, present, or the set rehashed.
C2_RoundTrip ==
  (last.op = "set" /\ ~IsFullError(last.exc)) => Lookup(last.key) = Found(last.val)

\* C3: when a set forces one or more rehashes, every other key that was
\* retrievable before the call is retrievable with the same value after it.
C3_ResizePreservesEntries ==
  [][(SetStep /\ size_index' > size_index) =>
       \A k \in Keys \ {last'.key} :
         Lookup(k).exc = "none" => LookupAfter(k) = Lookup(k)]_vars

\* C4: the table is a key-to-value map. A set(k, v) that returns makes get(k)
\* return v, a delete(k) that returns makes get(k) fail with KeyError, a call
\* that raises changes no get, no call changes the get of another key, and get
\* only ever returns a value or raises KeyError.
C4_MapStep ==
  /\ \A k \in Keys : LookupAfter(k).exc \in {"none", "KeyError"}
  /\ (SetStep /\ last'.exc = "none") =>
       /\ LookupAfter(last'.key) = Found(last'.val)
       /\ \A k \in Keys \ {last'.key} : LookupAfter(k) = Lookup(k)
  /\ (DeleteStep /\ last'.exc = "none") =>
       /\ Lookup(last'.key) # NotFound
       /\ LookupAfter(last'.key) = NotFound
       /\ \A k \in Keys \ {last'.key} : LookupAfter(k) = Lookup(k)
  /\ ((SetStep \/ DeleteStep) /\ last'.exc # "none") =>
       \A k \in Keys : LookupAfter(k) = Lookup(k)
  /\ (DeleteStep /\ last'.exc # "none") =>
       (last'.exc = "KeyError" /\ Lookup(last'.key) = NotFound)

C4_AbstractMap == [][C4_MapStep]_vars

\* C5: a set that fails with table-full leaves keys(), every get, count and
\* the slot array as they were before the call.
C5_TableFullLeavesTable ==
  [][(SetStep /\ IsFullError(last'.exc)) =>
       /\ array' = array
       /\ count' = count
       /\ keys(Self)' = keys(Self)
       /\ \A k \in Keys : LookupAfter(k) = Lookup(k)]_vars

\* C6: after delete(k) of a present key, get(k) fails with KeyError and
\* contains(k) is false; a set(k, v2) made next succeeds and get(k) returns v2.
C6_DeleteStep ==
  /\ (DeleteStep /\ last'.exc = "none") =>
       /\ LookupAfter(last'.key) = NotFound
       /\ contains(Self', last'.key) = [exc |-> "none", ret |-> <<FALSE>>]
  /\ (last.op = "delete" /\ last.exc = "none" /\ SetStep /\ last'.key = last.key) =>
       /\ last'.exc = "none"
       /\ LookupAfter(last'.key) = Found(last'.val)

C6_DeletionContract == [][C6_DeleteStep]_vars

\* C7 as claimed: a set that returns after pushing count above 2/3 of the
\* capacity leaves the capacity at the schedule entry directly after the one
\* in force when the call began.
C7_NextEntry ==
  [][(SetStep /\ last'.exc = "none" /\ PushesAboveTwoThirds(last'.key, last'.val)) =>
       /\ size_index + 2 <= Len(TABLE_SIZES)
       /\ table_size(Self)' = TABLE_SIZES[size_index + 2]]_vars

\* C7 as amended: such a set leaves the capacity at a later schedule entry,
\* larger than before, and count is no longer above 2/3 of it.
C7_LaterEntry ==
  [][(SetStep /\ last'.exc = "none" /\ PushesAboveTwoThirds(last'.key, last'.val)) =>
       /\ size_index' > size_index
       /\ size_index' < Len(TABLE_SIZES)
       /\ table_size(Self)' = TABLE_SIZES[size_index' + 1]
       /\ table_size(Self)' > table_size(Self)
       /\ 3 * count' <= 2 * table_size(Self)']_vars

\* a set has returned with the table two entries further than the first one:
\* on <<3, 4, 8>> the three items that overload 3 slots overload 4 as well
C7_Witness ==
  /\ TABLE_SIZES = <<3, 4, 8>>
  /\ last.op = "set" /\ last.exc = "none"
  /\ size_index = 2 /\ table_size(Self) = 8
  /\ count = 3 /\ NumOccupied = 3

\* C8: _rehash called with size_index at the last schedule entry fails with
\* table-full and leaves size_index, the array and count as they were.
C8_ExhaustedRehashNoEffect ==
  [][(last'.op = "rehash" /\ size_index >= Len(TABLE_SIZES) - 1) =>
       /\ last'.exc = FULL_RESIZE
       /\ size_index' = size_index
       /\ array' = array
       /\ count' = count]_vars

\* C9 as claimed: a set fails with table-full only if its probe resolved no
\* slot and the schedule was exhausted; never while later entries remain.
C9_OnlyWhenExhausted ==
  [][(SetStep /\ IsFullError(last'.exc)) =>
       /\ IsFullError(hashy_probe(Self, last'.key, TRUE).exc)
       /\ size_index >= Len(TABLE_SIZES) - 1]_vars

\* C9 as amended: a set fails with table-full only if a probe resolved no slot
\* (its own, leaving size_index alone, or one made while a rehash reinserts),
\* or if its own probe resolved a slot, the write pushed count above 2/3 of
\* the capacity and the rehashes then ran past the last schedule entry.
C9_ProbeOrExhausted ==
  [][(SetStep /\ IsFullError(last'.exc)) =>
       \/ /\ last'.exc = FULL_PROBE
          /\ \/ hashy_probe(Self, last'.key, TRUE).exc = FULL_PROBE
             \/ size_index' > size_index
       \/ /\ last'.exc = FULL_RESIZE
          /\ PushesAboveTwoThirds(last'.key, last'.val)
          /\ size_index' >= Len(TABLE_SIZES)]_vars

\* a set has failed on its probe while later schedule entries remain
C9_Witness ==
  /\ last.op = "set" /\ last.exc = FULL_PROBE
  /\ size_index < Len(TABLE_SIZES) - 1

\* C10: keys() and values() return the keys and the values of the Occupied
\* slots in ascending slot order and do not fail, tombstones or not.
RECURSIVE ItemsFrom(_, _)
ItemsFrom(arr, x) ==
  IF x \notin DOMAIN arr THEN <<>>
  ELSE IF arr[x].tag = "Item" THEN <<arr[x]>> \o ItemsFrom(arr, x + 1)
  ELSE ItemsFrom(arr, x + 1)

OccupiedItems == ItemsFrom(array, 0)

C10_KeysValuesOfOccupied ==
  /\ keys(Self) = [exc |-> "none",
                   ret |-> [i \in 1..Len(OccupiedItems) |-> OccupiedItems[i].key]]
  /\ values(Self) = [exc |-> "none",
                     ret |-> [i \in 1..Len(OccupiedItems) |-> OccupiedItems[i].val]]


\* key is live: some slot holds an item with this key
Live(key) == \E i \in DOMAIN array : array[i].tag = "Item" /\ array[i].key = key

\* C11: a get, contains or delete on a key that is not live reports the
\* absence (KeyError, or False for contains) and leaves every slot, count,
\* size_index and the capacity unchanged.
C11_KeyNotFoundNoEffect ==
  [][(last'.op \in {"get", "contains", "delete"} /\ ~Live(last'.key)) =>
       /\ last'.exc = IF last'.op = "contains" THEN "none" ELSE "KeyError"
       /\ last'.op = "contains" => last'.ret = <<FALSE>>
       /\ array' = array
       /\ count' = count
       /\ size_index' = size_index
       /\ table_size(Self)' = table_size(Self)]_vars

\* a delete of a key that is not live has failed in a table holding a
\* tombstone and an item
C11_Witness ==
  /\ last.op = "delete" /\ last.exc = "KeyError"
  /\ \E i \in DOMAIN array : array[i] = DELETED
  /\ NumOccupied >= 1

\* the keys "a", "b", "c", "d" in the order of the scenario; key n gets value n - 1
ScenarioKeys == << <<97>>, <<98>>, <<99>>, <<100>> >>

\* the table of schedule [5] holds exactly the first n pairs of the scenario
InsertedSoFar(n) ==
  /\ TABLE_SIZES = <<5>> /\ size_index = 0
  /\ count = n /\ NumOccupied = n
  /\ \A j \in 1..n : Lookup(ScenarioKeys[j]) = Found(j - 1)
  /\ \A i \in DOMAIN array : array[i] # DELETED

\* the step is the scenario's insertion number n + 1
ScenarioInsert(n) ==
  /\ InsertedSoFar(n)
  /\ SetStep /\ last'.key = ScenarioKeys[n + 1] /\ last'.val = n

AllFourFound == \A j \in 1..4 : LookupAfter(ScenarioKeys[j]) = Found(j - 1)

OnlyTombstoneOf(x) ==
  /\ array[hash(Self, x)] = DELETED
  /\ \A i \in DOMAIN array : i # hash(Self, x) => array[i] = None

\* C13: on an empty table, after set(x, 1) and delete(x), set(y, 2) for a key
\* y # x with hash(y) = hash(x) at the current capacity puts y in the slot x
\* had (the tombstone), triggers no rehash, and get(y) returns 2.
C13_TombstoneReuse ==
  [][(/\ last.op = "delete" /\ last.exc = "none"
      /\ OnlyTombstoneOf(last.key)
      /\ SetStep /\ last'.val = 2
      /\ last'.key # last.key
      /\ ~HashRaises(Self, last.key)
      /\ hash(Self, last'.key) = hash(Self, last.key)) =>
       /\ last'.exc = "none"
       /\ array' = [array EXCEPT ![hash(Self, last.key)] = Item(last'.key, 2)]
       /\ size_index' = size_index
       /\ LookupAfter(last'.key) = Found(2)]_vars

\* y has been set into the slot of a deleted key with the same hash
C13_Witness ==
  /\ last.op = "set" /\ last.val = 2 /\ last.exc = "none"
  /\ array[hash(Self, last.key)] = Item(last.key, 2)
  /\ NumOccupied = 1
  /\ count = 0

\* position number m of the probe of key: hash(key) + m * hash2(key), modulo
\* the capacity
ProbePosition(key, m) ==
  (hash(Self, key) + m * hash2(Self, key)) % table_size(Self)

\* slot i is reached by the probe of key within capacity steps and before
\* any empty slot
ReachedBeforeEmpty(key, i) ==
  \E n \in 0..(table_size(Self) - 1) :
    /\ ProbePosition(key, n) = i
    /\ \A m \in 0..(n - 1) : array[ProbePosition(key, m)] # None

\* C14: in every reachable state each slot holding an item is reached by the
\* probe sequence of the item's key within capacity steps without passing an
\* empty slot first; so a lookup that meets an empty slot concerns an absent
\* key, and every live key is found.
C14_ProbePath ==
  /\ \A i \in Occupied(array) : ReachedBeforeEmpty(array[i].key, i)
  /\ \A key \in Keys : Live(key) <=> Lookup(key).exc = "none"

\* an item sits past its hash position, behind a tombstone on its probe path
C14_Witness ==
  \E i \in Occupied(array) :
    /\ hash(Self, array[i].key) # i
    /\ array[hash(Self, array[i].key)] = DELETED

\* C15: set(k, v) for a key k that is not live, when it returns, has raised
\* count by exactly 1 and left an item (k, v) in the array, whether the slot
\* its probe resolved was empty or a tombstone.
C15_InsertCountsOne ==
  [][(SetStep /\ last'.exc = "none" /\ ~Live(last'.key)) =>
       /\ count' = count + 1
       /\ \E i \in DOMAIN array' : array'[i] = Item(last'.key, last'.val)]_vars

\* the key/value pairs held by an array
Pairs(arr) == { <<arr[i].key, arr[i].val>> : i \in Occupied(arr) }

\* the table as set(key, data) has it when it calls _rehash: the pair written
WrittenBy(key, data) ==
  LET p == hashy_probe(Self, key, TRUE)
  IN store(Self, p.position, key, data)

\* C16: a set that triggers a rehash either returns with a new array holding
\* every pair that was in the table when the rehash began, or fails and
\* leaves the array, the capacity and count as they were (before the call,
\* or when the rehash began): never a table with only some of the pairs
\* moved.
C16_RehashAllOrNothing ==
  [][\A key \in Keys, data \in Vals :
       (/\ SetStep /\ last'.key = key /\ last'.val = data
        /\ PushesAboveTwoThirds(key, data)) =>
         \/ /\ last'.exc = "none"
            /\ Pairs(array') = Pairs(WrittenBy(key, data).array)
         \/ /\ last'.exc # "none"
            /\ \/ array' = array /\ count' = count
               \/ /\ array' = WrittenBy(key, data).array
                  /\ count' = WrittenBy(key, data).count]_vars

\* C17: a rehash that the schedule has room for succeeds and discards the
\* tombstones: after it the array has the length of the next schedule entry,
\* holds no tombstone, holds exactly the pairs that were in the table before,
\* and count is the number of those pairs.
C17_RehashDiscardsTombstones ==
  [][(last'.op = "rehash" /\ size_index + 1 < Len(TABLE_SIZES)) =>
       /\ last'.exc = "none"
       /\ table_size(Self)' = TABLE_SIZES[size_index + 2]
       /\ \A i \in DOMAIN array' : array'[i] # DELETED
       /\ Pairs(array') = Pairs(array)
       /\ count' = Cardinality(Pairs(array))]_vars

\* Along the probe sequence of key: the steps at which the probe ends (an
\* empty slot or the key itself), the number of steps it inspects, and the
\* steps before its end at which it passes a tombstone
Min(S) == CHOOSE m \in S : \A n \in S : m <= n
ProbeEnds(key) ==
  { m \in 0..(table_size(Self) - 1) :
      LET slot == array[ProbePosition(key, m)]
      IN slot = None \/ (slot.tag = "Item" /\ slot.key = key) }
ProbeLength(key) ==
  IF ProbeEnds(key) = {} THEN table_size(Self) ELSE Min(ProbeEnds(key))
ProbeTombstones(key) ==
  { m \in 0..(ProbeLength(key) - 1) : array[ProbePosition(key, m)] = DELETED }

\* C18: the insert probe returns the slot of the key when it meets it; on
\* the first empty slot, the first tombstone passed before it if there is
\* one and otherwise that empty slot; after capacity iterations without
\* either, the first tombstone passed if any, and otherwise it fails with
\* FullError "Hash table is full".
C18_InsertProbe ==
  \A key \in Keys :
    hashy_probe(Self, key, TRUE) =
      IF Live(key)
      THEN [exc |-> "none", position |-> ProbePosition(key, ProbeLength(key))]
      ELSE IF ProbeTombstones(key) # {}
           THEN [exc |-> "none",
                 position |-> ProbePosition(key, Min(ProbeTombstones(key)))]
           ELSE IF ProbeEnds(key) # {}
                THEN [exc |-> "none",
                      position |-> ProbePosition(key, ProbeLength(key))]
                ELSE [exc |-> FULL_PROBE, position |-> -1]

\* the probe of some key runs out of iterations after passing a tombstone,
\* and the probe of some key ends on an empty slot after passing one
C18_Witness ==
  /\ \E key \in Keys : ProbeEnds(key) = {} /\ ProbeTombstones(key) # {}
  /\ \E key \in Keys :
       /\ ~Live(key) /\ ProbeEnds(key) # {}
       /\ Cardinality(ProbeTombstones(key)) >= 1

\* the capacity positions hash + m * step (mod capacity), m < capacity, of
\* the probe of key are pairwise distinct
NoRevisit(key) ==
  \A m, n \in 0..(table_size(Self) - 1) :
    m # n => ProbePosition(key, m) # ProbePosition(key, n)

\* the steps the probe of key makes in the current table: up to its end, or
\* capacity of them
InspectedSteps(key) ==
  0..(IF ProbeEnds(key) = {} THEN table_size(Self) - 1 ELSE ProbeLength(key))

\* the positions the probe of key inspects in the current table are pairwise
\* distinct
NoRevisitInspected(key) ==
  \A m, n \in InspectedSteps(key) :
    m # n => ProbePosition(key, m) # ProbePosition(key, n)

IsPrime(n) == n > 1 /\ \A d \in 2..(n - 1) : n % d # 0

\* C19 (as claimed): for every key and every capacity of a schedule, default
\* or supplied by the caller, the positions inspected by one probe are
\* pairwise distinct.
C19_NoRevisitAnyCapacity ==
  \A key \in ProbeKeys : HashRaises(Self, key) \/ NoRevisitInspected(key)

\* C19 (amended): when the capacity is prime, as every capacity of the
\* default schedule is, the capacity positions of the probe sequence of every
\* key are pairwise distinct, and so are those one probe inspects.
C19_NoRevisitPrimeCapacity ==
  IsPrime(table_size(Self)) =>
    \A key \in ProbeKeys : NoRevisit(key) /\ NoRevisitInspected(key)

\* on a capacity of the default schedule a get has been made and the probe
\* of some key passes the tombstone and the item before it ends
C19_Witness ==
  /\ table_size(Self) \in {5, 13}
  /\ last.op = "get" /\ last.exc = "none"
  /\ \E key \in ProbeKeys : ProbeLength(key) >= 2

\* the slot holding key, when it is live
SlotOf(key) == CHOOSE i \in DOMAIN array : array[i].tag = "Item" /\ array[i].key = key

\* C20: set(k, v) for a key k that is live returns normally and overwrites
\* the value in place: the slot holding k keeps k and gets v, every other
\* slot, count, size_index and the capacity are unchanged (no rehash).
C20_UpdateInPlace ==
  [][(SetStep /\ Live(last'.key)) =>
       /\ last'.exc = "none"
       /\ array' = [array EXCEPT ![SlotOf(last'.key)] = Item(last'.key, last'.val)]
       /\ count' = count
       /\ size_index' = size_index
       /\ table_size(Self)' = table_size(Self)]_vars

\* the slots whose content differs between the two states of a step that
\* keeps the array's length
ChangedSlots == { i \in DOMAIN array : array'[i] # array[i] }

C22_EveryCallTerminates ==
  /\ [](\A n \in 1..Len(stack) :
          /\ stack[n].pc = "probe" => stack[n].i <= table_size(Self)
          /\ stack[n].pc = "rehash" => n <= size_index)
  /\ (stack # <<>>) ~> (stack = <<>>)

\* a set made by a rehash that was started while another rehash reinserts
\* is probing
C22_Witness ==
  /\ Len(stack) >= 3
  /\ stack[1].pc = "rehash" /\ stack[2].pc = "rehash" /\ stack[3].pc = "probe"

\* C23: hash(key) does not raise and returns an index in 0..capacity-1, for
\* every key and every capacity of a schedule of positive integers,
\* capacity 1 included: no call has failed in hash, and after every call
\* hash is in range for every key at the capacity of the table.
C23_HashInRange ==
  last.op \in {"set", "get", "delete"} =>
    /\ last.exc # "ZeroDivisionError"
    /\ \A key \in ProbeKeys :
         /\ ~HashRaises(Self, key)
         /\ hash(Self, key) \in 0..(table_size(Self) - 1)

\* C24: no call lowers size_index, and it changes only in a call that runs
\* _rehash: a direct one, or a set whose write takes count above 2/3 of the
\* capacity.
C24_SizeIndexMonotone ==
  [][/\ size_index' >= size_index
     /\ size_index' # size_index =>
          \/ last'.op = "rehash"
          \/ SetStep /\ PushesAboveTwoThirds(last'.key, last'.val)]_vars

\* a rehash has moved size_index to the last entry of a longer schedule
C24_Witness ==
  /\ last.op = "rehash" /\ last.exc = "none"
  /\ Len(TABLE_SIZES) = 3 /\ size_index = 2
  /\ NumOccupied >= 1

\* C25: in every reachable state count is at most the capacity.
C25_CountWithinCapacity == count <= table_size(Self)

\* a set has filled the last slot of the table: count equals the capacity
C25_Witness ==
  /\ last.op = "set"
  /\ count = table_size(Self)
  /\ NumOccupied = table_size(Self)

\* C26: after a set that returns normally the number of items is at most
\* 2/3 of the capacity, and a table whose schedule has a later entry keeps at
\* least one empty slot.
C26_LoadAfterSet ==
  (last.op = "set" /\ last.exc = "none") =>
    /\ 3 * NumOccupied <= 2 * table_size(Self)
    /\ size_index + 1 < Len(TABLE_SIZES) => \E i \in DOMAIN array : array[i] = None

\* C27: in every reachable state, also after a set or rehash that failed,
\* size_index is an index of the schedule and the length of the array is the
\* schedule entry at size_index.
C27_SizeIndexValid ==
  /\ size_index \in 0..(Len(TABLE_SIZES) - 1)
  /\ table_size(Self) = TABLE_SIZES[size_index + 1]

\* C28: in every reachable state no key is held by two slots: each live key
\* is in exactly one.
C28_NoDuplicateKey ==
  \A i, j \in Occupied(array) : array[i].key = array[j].key => i = j

\* a key was set again while a tombstone lies on its probe path before the
\* slot that holds it
C28_Witness ==
  /\ last.op = "set" /\ last.exc = "none"
  /\ Live(last.key)
  /\ array[hash(Self, last.key)] = DELETED

\* the most recent min(5, n) of n results, oldest first
LastFive(results) == SubSeq(results, Max(1, Len(results) - 4), Len(results))

\* C29: after any sequence of updates to WINS, DRAWS or LOSSES the
\* LAST_FIVE_RESULTS queue holds at most 5 entries, and they are the most
\* recent min(5, n) results in the order played; get_last_five_results returns
\* them in that order, or None when no game has been played
C29_LastFiveResults ==
  /\ Len(team.statistics["LAST_FIVE_RESULTS"]) <= 5
  /\ team.statistics["LAST_FIVE_RESULTS"] = LastFive(team.played)
  /\ last.op = "get_last_five_results" =>
       last.ret = IF team.played = <<>> THEN <<>>
                  ELSE <<LastFive(team.played)>>

\* a sixth result has pushed the first out, and the five left have been read
C29_Witness ==
  /\ Len(team.played) > 5
  /\ team.played[1] # team.played[2]
  /\ team.played[2] # team.played[6]
  /\ last.op = "get_last_five_results"
  /\ last.ret = <<SubSeq(team.played, 2, 6)>>

\* the teams of a game
Sides(game) == {game.home_team, game.away_team}

\* the games of the first half of a schedule, each as <<week, place>>
FirstHalfGames(schedule) ==
  UNION { { <<w, g>> : g \in DOMAIN schedule[w] } :
          w \in 0..((ArrayR_len(schedule) \div 2) - 1) }

\* C30: in the schedule _generate_schedule returns no team appears in more
\* than one game of the same week, every unordered pair of teams appears in
\* exactly one game of the first half, and the second half holds the same
\* weeks with home and away swapped
C30_ScheduleRoundRobin ==
  last.op = "_generate_schedule" =>
    LET schedule == season.generated_schedule
        half == ArrayR_len(schedule) \div 2
    IN /\ \A w \in DOMAIN schedule : \A g, h \in DOMAIN schedule[w] :
            g # h => Sides(schedule[w][g]) \cap Sides(schedule[w][h]) = {}
       /\ \A i, j \in DOMAIN season.teams :
            i < j =>
              Cardinality({ p \in FirstHalfGames(schedule) :
                              Sides(schedule[p[1]][p[2]])
                                = {season.teams[i], season.teams[j]} }) = 1
       /\ ArrayR_len(schedule) = 2 * half
       /\ \A w \in 0..(half - 1) :
            /\ DOMAIN schedule[half + w] = DOMAIN schedule[w]
            /\ \A g \in DOMAIN schedule[w] :
                 schedule[half + w][g]
                   = Game(schedule[w][g].away_team, schedule[w][g].home_team)

\* a schedule of three or more teams has been generated: its first half has
\* a week for the first two teams and a later week for the last two
C30_Witness ==
  /\ last.op = "_generate_schedule"
  /\ ArrayR_len(season.teams) >= 3
  /\ ArrayR_len(season.generated_schedule) >= 6
  /\ season.generated_schedule[0][0] = Game(season.teams[0], season.teams[1])
  /\ \E p \in FirstHalfGames(season.generated_schedule) :
       /\ p[1] > 0
       /\ season.generated_schedule[p[1]][p[2]]
            = Game(season.teams[ArrayR_len(season.teams) - 2],
                   season.teams[ArrayR_len(season.teams) - 1])

\* C31: the k-th Team constructed gets number k, and two different Team
\* instances never share a team number
C31_TeamNumbering ==
  /\ \A k \in DOMAIN season.teams : get_number(season.teams[k]) = k + 1
  /\ \A k, m \in DOMAIN season.teams :
       get_number(season.teams[k]) = get_number(season.teams[m]) => k = m

====
